---- MODULE Spec2Model ----
(***************************************************************************)
(* A model of app.py, the Nifty stocks dashboard: one run of the script    *)
(* from pd.read_csv to the footer.  The data frame is a sequence of rows   *)
(* kept in file order; every row carries its pandas index label (idx).     *)
(*                                                                         *)
(* Numbers.  Close is a non-negative integer.  Every float column is a     *)
(* value [k, n, d]: k = "num" is the rational n/d in lowest terms, "nan"   *)
(* is NaN, "inf" is n * infinity, and "sqrt" is the square root of n/d     *)
(* (a standard deviation is kept exact that way).  Arithmetic is exact:    *)
(* float64 rounding is not modelled.                                       *)
(*                                                                         *)
(* Widgets.  The selectbox, the multiselect and the date input are inputs  *)
(* chosen by the user; theme, colours and the show_* toggles only style    *)
(* the traces and are left out: the charts are modelled by the rows they   *)
(* are given.                                                              *)
(***************************************************************************)
EXTENDS Integers, Sequences, FiniteSets, TLC

VARIABLES
    pc,              \* the statement group the script is about to run
    csv,             \* the file Stocks_2025.csv: NoFile, or [cols, rows]
    columns,         \* df.columns
    df,              \* the rows of df, in frame order
    error,           \* NoError, or what ended the run early
    category,        \* the selectbox's value
    stocks,          \* the stocks offered by the multiselect
    selected_stocks, \* the multiselect's value
    date_range,      \* <<start_date, end_date>>
    filtered_df,     \* the rows of filtered_df
    shown,           \* stock -> the rows handed to the three charts
    metrics,         \* stock -> Key Metrics of the stock
    exported         \* the rows written to the download

vars == <<pc, csv, columns, df, error, category, stocks, selected_stocks,
          date_range, filtered_df, shown, metrics, exported>>

-----------------------------------------------------------------------------
(* Bounds of the model. *)

\* short files: every sequence of at most MaxShort rows
MaxShort == 2
\* long files: how many rows beyond SMA_100's window the longest one has
MaxExtra == 1

(* Program constants. *)
SMA50_Window == 50
SMA100_Window == 100
Vol_Window == 20

NoFile == [cols |-> {}, rows |-> <<>>, found |-> FALSE]
NaT == 0
None == "None"

required_cols == {"Date", "Stock", "Category", "Close"}

-----------------------------------------------------------------------------
(* Float values. *)

NaN == [k |-> "nan", n |-> 0, d |-> 1]
Inf(sign) == [k |-> "inf", n |-> sign, d |-> 1]

Abs(x) == IF x < 0 THEN -x ELSE x
Max(a, b) == IF a > b THEN a ELSE b

RECURSIVE Gcd(_, _)
Gcd(a, b) == IF b = 0 THEN a ELSE Gcd(b, a % b)

Lcm(a, b) == (a \div Gcd(a, b)) * b

\* the rational n/d (d > 0) in lowest terms
Num(n, d) ==
    LET g == Gcd(Abs(n), d)
    IN  [k |-> "num", n |-> n \div g, d |-> d \div g]

\* the square root of the rational n/d (n >= 0, d > 0)
Sqrt(n, d) ==
    LET g == Gcd(n, d)
    IN  [k |-> "sqrt", n |-> n \div g, d |-> d \div g]

IsFinite(v) == v.k = "num"

\* s[1] + ... + s[i]
RECURSIVE SumTo(_, _)
SumTo(s, i) == IF i = 0 THEN 0 ELSE s[i] + SumTo(s, i - 1)

SumSeq(s) == SumTo(s, Len(s))

\* the least common denominator of s[1] .. s[i]
RECURSIVE LcmDenTo(_, _)
LcmDenTo(s, i) == IF i = 0 THEN 1 ELSE Lcm(s[i].d, LcmDenTo(s, i - 1))

LcmDen(s) == LcmDenTo(s, Len(s))

\* Series.mean() of a non-empty integer column
MeanOf(xs) == Num(SumSeq(xs), Len(xs))

\* the sample standard deviation (ddof = 1) of at least 2 rationals
StdOf(vs) ==
    LET N  == Len(vs)
        L  == LcmDen(vs)
        ys == [j \in 1..N |-> vs[j].n * (L \div vs[j].d)]
        s1 == SumSeq(ys)
        s2 == SumSeq([j \in 1..N |-> ys[j] * ys[j]])
    IN  Sqrt(N * s2 - s1 * s1, N * (N - 1) * L * L)

-----------------------------------------------------------------------------
(* The pandas operations the script calls, on a column (a sequence). *)

Column(rows, name) == [i \in 1..Len(rows) |-> rows[i][name]]

\* the rows i-window+1 .. i of a column, clipped at the first row
WindowOf(col, i, window) == SubSeq(col, Max(1, i - window + 1), i)

\* Series.rolling(window, min_periods).mean() of an integer column
RollingMean(col, window, min_periods) ==
    [i \in 1..Len(col) |->
        LET w == WindowOf(col, i, window)
        IN  IF Len(w) < min_periods THEN NaN ELSE MeanOf(w)]

\* Series.pct_change(): col[i] / col[i-1] - 1, NaN on the first row
PctChange(col) ==
    [i \in 1..Len(col) |->
        IF i = 1 THEN NaN
        ELSE IF col[i-1] = 0
             THEN (IF col[i] = 0 THEN NaN ELSE Inf(1))
             ELSE Num(col[i] - col[i-1], col[i-1])]

\* Series * 100
Times100(col) ==
    [i \in 1..Len(col) |->
        IF col[i].k = "num" THEN Num(col[i].n * 100, col[i].d) ELSE col[i]]

\* Series.rolling(window).std(): min_periods defaults to the window; NaN
\* and infinite entries do not count as observations
RollingStd(col, window, min_periods) ==
    [i \in 1..Len(col) |->
        LET w  == WindowOf(col, i, window)
            ok == SelectSeq(w, IsFinite)
        IN  IF Len(ok) < min_periods \/ Len(ok) < 2 THEN NaN ELSE StdOf(ok)]

\* np.round(x, 2): to the nearest hundredth, ties to the even one
Round2(v) ==
    IF v.k # "num" THEN v
    ELSE LET q == v.n * 100
             f == q \div v.d
             r == q % v.d
             up == \/ 2 * r > v.d
                   \/ 2 * r = v.d /\ f % 2 = 1
         IN  Num(IF up THEN f + 1 ELSE f, 100)

-----------------------------------------------------------------------------
(* Lines 40-43: the four derived columns. *)

SMA_50(close) == RollingMean(close, SMA50_Window, 1)

SMA_100(close) == RollingMean(close, SMA100_Window, 1)

Change_pct(close) == Times100(PctChange(close))

\* a volatility that settles for two observations in the window
Volatility_FromTwo(change) == RollingStd(change, Vol_Window, 2)

Volatility(change) == RollingStd(change, Vol_Window, Vol_Window)

\* the four new columns, each computed once over the whole column
NewColumns(rows) ==
    LET close  == Column(rows, "Close")
        change == Change_pct(close)
    IN  [SMA_50 |-> SMA_50(close), SMA_100 |-> SMA_100(close),
         Change_pct |-> change, Volatility |-> Volatility(change)]

\* df[name] = column, for the four new columns
Assign(rows, new) ==
    [i \in 1..Len(rows) |->
        [idx |-> rows[i].idx, Date |-> rows[i].Date,
         Stock |-> rows[i].Stock, Category |-> rows[i].Category,
         Close |-> rows[i].Close,
         SMA_50 |-> new.SMA_50[i], SMA_100 |-> new.SMA_100[i],
         Change_pct |-> new.Change_pct[i],
         Volatility |-> new.Volatility[i]]]

\* (the columns are bound as values before the rows are built)
FeatureEngineering(rows) ==
    CHOOSE out \in {Assign(rows, new) : new \in {NewColumns(rows)}} : TRUE

-----------------------------------------------------------------------------
(* The input files. *)

RawDates == {<<"junk", 0>>, <<"iso", 1>>, <<"iso", 2>>}
RawStocks == {<<"A">>, <<"B">>}
SpacedStocks == {<<"A">>, <<" ", "A">>, <<"A", " ">>, <<"B">>}
Categories == {"X", "Y"}
Closes == {0, 100, 110}

RawRows == [Date : RawDates, Stock : RawStocks, Category : Categories,
            Close : Closes]

SeqsUpTo(S, n) == UNION {[1..m -> S] : m \in 0..n}

ColSets == SUBSET (required_cols \cup {"Unnamed: 0"})

\* long files: row i takes its stock and close from a repeating pattern
LongLens == {Vol_Window, Vol_Window + 1, SMA50_Window + 1,
             SMA100_Window + MaxExtra}
ClosePatterns == {<<100, 125, 100, 80>>, <<100, 150, 100>>,
                  <<100, 0, 100, 100, 50>>}
StockPatterns == {<<<<"A">>>>, <<<<"A">>, <<"B">>, <<" ", "A">>>>}
DateOrders == {"asc", "desc", "junk"}

Cyc(pat, i) == pat[((i - 1) % Len(pat)) + 1]

LongRows(n, cp, sp, ord) ==
    [i \in 1..n |->
        [Date |-> CASE ord = "asc" -> <<"iso", i>>
                    [] ord = "desc" -> <<"iso", n + 1 - i>>
                    [] OTHER -> IF i % 3 = 2 THEN <<"junk", 0>>
                                ELSE <<"iso", i>>,
         Stock |-> Cyc(sp, i), Category |-> "X", Close |-> Cyc(cp, i)]]

LongFiles ==
    {[cols |-> required_cols, rows |-> LongRows(n, cp, sp, ord),
      found |-> TRUE] :
        n \in LongLens, cp \in ClosePatterns, sp \in StockPatterns,
        ord \in DateOrders}

ShortFiles ==
    {[cols |-> required_cols, rows |-> r, found |-> TRUE] :
        r \in SeqsUpTo(RawRows, MaxShort)}

\* files with columns missing or with the unnamed index column
OddRows == [Date : RawDates, Stock : SpacedStocks, Category : Categories,
            Close : Closes]

OddFiles ==
    {[cols |-> c, rows |-> r, found |-> TRUE] :
        c \in ColSets, r \in SeqsUpTo(OddRows, 1)}

Files == ShortFiles \cup LongFiles \cup OddFiles \cup {NoFile}

-----------------------------------------------------------------------------
(* The script, statement group by statement group. *)

\* pd.to_datetime(errors="coerce") of one cell
ToDatetime(raw) == IF raw[1] = "iso" THEN raw[2] ELSE NaT

\* str.replace(" ", "") of one cell
StripSpaces(s) == SelectSeq(s, LAMBDA c : c # " ")

SetOf(col) == {col[i] : i \in 1..Len(col)}

NoError == [kind |-> "none", arg |-> {}]

\* st.error(...) followed by st.stop()
Stop(msg, arg) ==
    /\ pc' = "stopped"
    /\ error' = [kind |-> msg, arg |-> arg]

\* an exception nothing catches
Crash(exc, arg) ==
    /\ pc' = "crashed"
    /\ error' = [kind |-> exc, arg |-> arg]

Init ==
    /\ pc = "load"
    /\ csv \in Files
    /\ columns = {}
    /\ df = <<>>
    /\ error = NoError
    /\ category = None
    /\ stocks = {}
    /\ selected_stocks = {}
    /\ date_range = <<NaT, NaT>>
    /\ filtered_df = <<>>
    /\ shown = <<>>
    /\ metrics = <<>>
    /\ exported = <<>>

\* lines 18-22
LoadData ==
    /\ pc = "load"
    /\ IF csv.found
       THEN /\ df' = [i \in 1..Len(csv.rows) |->
                        [idx |-> i - 1, Date |-> csv.rows[i].Date,
                         Stock |-> csv.rows[i].Stock,
                         Category |-> csv.rows[i].Category,
                         Close |-> csv.rows[i].Close]]
            /\ columns' = csv.cols
            /\ pc' = "unnamed"
            /\ error' = error
       ELSE /\ Stop("CSV file not found", {})
            /\ UNCHANGED <<df, columns>>
    /\ UNCHANGED <<csv, category, stocks, selected_stocks, date_range,
                   filtered_df, shown, metrics, exported>>

\* lines 25-26
DropUnnamed ==
    /\ pc = "unnamed"
    /\ columns' = columns \ {"Unnamed: 0"}
    /\ pc' = "dates"
    /\ UNCHANGED <<csv, df, error, category, stocks, selected_stocks,
                   date_range, filtered_df, shown, metrics, exported>>

\* line 28: df["Date"] = pd.to_datetime(df["Date"], errors="coerce")
CoerceDates(rows) ==
    [i \in 1..Len(rows) |-> [rows[i] EXCEPT !.Date = ToDatetime(@)]]

\* a dropna that removes nothing
DropNaT_KeepAll(rows) == rows

\* line 29: df.dropna(subset=["Date"], inplace=True)
DropNaT(rows) == SelectSeq(rows, LAMBDA r : r.Date # NaT)

\* lines 28-29
ParseDates ==
    /\ pc = "dates"
    /\ IF "Date" \in columns
       THEN /\ df' = DropNaT(CoerceDates(df))
            /\ pc' = "stock"
            /\ error' = error
       ELSE /\ Crash("KeyError", {"Date"})
            /\ df' = df
    /\ UNCHANGED <<csv, columns, category, stocks, selected_stocks,
                   date_range, filtered_df, shown, metrics, exported>>

\* line 30
CleanStock ==
    /\ pc = "stock"
    /\ IF "Stock" \in columns
       THEN /\ df' = [i \in 1..Len(df) |->
                        [df[i] EXCEPT !.Stock = StripSpaces(@)]]
            /\ pc' = "verify"
            /\ error' = error
       ELSE /\ Crash("KeyError", {"Stock"})
            /\ df' = df
    /\ UNCHANGED <<csv, columns, category, stocks, selected_stocks,
                   date_range, filtered_df, shown, metrics, exported>>

\* lines 33-37
VerifyColumns ==
    /\ pc = "verify"
    /\ LET missing == required_cols \ columns
       IN  IF missing # {}
           THEN Stop("Missing columns", missing)
           ELSE pc' = "features" /\ error' = error
    /\ UNCHANGED <<csv, columns, df, category, stocks, selected_stocks,
                   date_range, filtered_df, shown, metrics, exported>>

\* lines 40-43
Features ==
    /\ pc = "features"
    /\ df' = FeatureEngineering(df)
    /\ columns' = columns \cup {"SMA_50", "SMA_100", "Change_%", "Volatility"}
    /\ pc' = "category"
    /\ UNCHANGED <<csv, error, category, stocks, selected_stocks,
                   date_range, filtered_df, shown, metrics, exported>>

\* lines 49-50: the selectbox offers the categories; with none it is None
SelectCategory ==
    /\ pc = "category"
    /\ LET categories == SetOf(Column(df, "Category"))
       IN  IF categories = {}
           THEN category' = None
           ELSE category' \in categories
    /\ pc' = "stocks"
    /\ UNCHANGED <<csv, columns, df, error, stocks, selected_stocks,
                   date_range, filtered_df, shown, metrics, exported>>

\* line 52: df[df["Category"] == category]
ByCategory(rows, cat) == SelectSeq(rows, LAMBDA r : r.Category = cat)

\* line 60: the rows with start_date <= Date <= end_date
ByDateRange(rows, start_date, end_date) ==
    SelectSeq(rows, LAMBDA r : r.Date >= start_date /\ r.Date <= end_date)

\* lines 52-54: default=[stocks[0]] is evaluated whatever the user picks
SelectStocks ==
    /\ pc = "stocks"
    /\ filtered_df' = ByCategory(df, category)
    /\ stocks' = SetOf(Column(filtered_df', "Stock"))
    /\ IF stocks' = {}
       THEN /\ Crash("IndexError", {"stocks[0]"})
            /\ selected_stocks' = selected_stocks
       ELSE /\ selected_stocks' \in SUBSET stocks'
            /\ pc' = "range"
            /\ error' = error
    /\ UNCHANGED <<csv, columns, df, category, date_range, shown, metrics,
                   exported>>

\* the dates the user can pick in the date input
DateChoices ==
    LET dates == SetOf(Column(df, "Date"))
        min_date == CHOOSE d \in dates : \A e \in dates : d <= e
        max_date == CHOOSE d \in dates : \A e \in dates : d >= e
    IN  {min_date, max_date}
            \cup ({ToDatetime(raw) : raw \in RawDates} \ {NaT})

\* lines 57-60
SelectDateRange ==
    /\ pc = "range"
    /\ \E start_date \in DateChoices, end_date \in DateChoices :
        /\ start_date <= end_date
        /\ date_range' = <<start_date, end_date>>
        /\ filtered_df' = ByDateRange(filtered_df, start_date, end_date)
    /\ pc' = "tabs"
    /\ UNCHANGED <<csv, columns, df, error, category, stocks,
                   selected_stocks, shown, metrics, exported>>

\* filtered_df[filtered_df["Stock"] == stock]
DataOf(stock) == SelectSeq(filtered_df, LAMBDA r : r.Stock = stock)

\* lines 84-119: the three charts plot the same rows of each selected stock
RenderCharts ==
    /\ pc = "tabs"
    /\ shown' = [stock \in selected_stocks |-> DataOf(stock)]
    /\ pc' = "metrics"
    /\ UNCHANGED <<csv, columns, df, error, category, stocks,
                   selected_stocks, date_range, filtered_df, metrics,
                   exported>>

\* line 126, on numpy floats: x / 0 is inf or nan, not an exception
TotalChange(first, last) ==
    IF first = 0
    THEN (IF last = 0 THEN NaN ELSE Inf(1))
    ELSE Num((last - first) * 100, first)

\* lines 125-127; the mean of the standard deviations is kept as the
\* sequence of the values averaged (Series.mean skips NaN)
MetricsOf(data) ==
    LET close == Column(data, "Close")
    IN  [avg_price    |-> Round2(MeanOf(close)),
         total_change |-> Round2(TotalChange(close[1], close[Len(close)])),
         vol_mean_of  |-> SelectSeq(Column(data, "Volatility"),
                                    LAMBDA v : v.k # "nan")]

\* lines 122-131: .iloc[-1] of an empty selection raises IndexError
KeyMetrics ==
    /\ pc = "metrics"
    /\ IF \E stock \in selected_stocks : DataOf(stock) = <<>>
       THEN /\ Crash("IndexError", {"iloc"})
            /\ metrics' = metrics
       ELSE /\ metrics' = [stock \in selected_stocks |->
                              MetricsOf(DataOf(stock))]
            /\ pc' = "export"
            /\ error' = error
    /\ UNCHANGED <<csv, columns, df, category, stocks, selected_stocks,
                   date_range, filtered_df, shown, exported>>

\* an export that engineers the features again, on the rows it keeps
DataToExport_Recomputed(sel) ==
    FeatureEngineering(SelectSeq(filtered_df, LAMBDA r : r.Stock \in sel))

\* line 136: filtered_df[filtered_df["Stock"].isin(selected_stocks)]
DataToExport(sel) == SelectSeq(filtered_df, LAMBDA r : r.Stock \in sel)

\* lines 134-139
ExportData ==
    /\ pc = "export"
    /\ exported' = DataToExport(selected_stocks)
    /\ pc' = "footer"
    /\ UNCHANGED <<csv, columns, df, error, category, stocks,
                   selected_stocks, date_range, filtered_df, shown, metrics>>

\* lines 141-142
Footer ==
    /\ pc = "footer"
    /\ pc' = "done"
    /\ UNCHANGED <<csv, columns, df, error, category, stocks,
                   selected_stocks, date_range, filtered_df, shown, metrics,
                   exported>>

Next ==
    \/ LoadData
    \/ DropUnnamed
    \/ ParseDates
    \/ CleanStock
    \/ VerifyColumns
    \/ Features
    \/ SelectCategory
    \/ SelectStocks
    \/ SelectDateRange
    \/ RenderCharts
    \/ KeyMetrics
    \/ ExportData
    \/ Footer

Spec == Init /\ [][Next]_vars

-----------------------------------------------------------------------------
(* Vocabulary of the properties. *)

\* the feature-engineering step has run and df is final
Enriched == pc = "category"

Derived(r) == <<r.SMA_50, r.SMA_100, r.Change_pct, r.Volatility>>

StocksOf(rows) == SetOf(Column(rows, "Stock"))

RowsOfStock(rows, s) == SelectSeq(rows, LAMBDA r : r.Stock = s)

DistinctDates(rows) ==
    \A i, j \in 1..Len(rows) : i # j => rows[i].Date # rows[j].Date

\* rows with pairwise distinct dates, in ascending date order
SortByDate(rows) ==
    LET n     == Len(rows)
        ranks == [i \in 1..n |->
                    Cardinality({j \in 1..n : rows[j].Date < rows[i].Date}) + 1]
    IN  [p \in 1..n |-> rows[CHOOSE i \in 1..n : ranks[i] = p]]

\* the mean of the last min(j, window) closes of rows ending at row j
TrailingMean(rows, j, window) ==
    LET lo == IF j > window THEN j - window + 1 ELSE 1
        S  == lo..j
        RECURSIVE Total(_)
        Total(T) == IF T = {} THEN 0
                    ELSE LET t == CHOOSE t \in T : TRUE
                         IN  rows[t].Close + Total(T \ {t})
    IN  Num(Total(S), Cardinality(S))

-----------------------------------------------------------------------------
(* C1: grouping by stock is leak-proof: the derived values the feature     *)
(* engineering step gives the rows of a stock are those it gives when run  *)
(* on that stock's rows alone.  (The code computes over the whole frame.)  *)
C1_LeakProof ==
    Enriched =>
        \A s \in StocksOf(df) :
            LET own   == RowsOfStock(df, s)
                alone == FeatureEngineering(own)
            IN  \A j \in 1..Len(own) : Derived(own[j]) = Derived(alone[j])

(* C2: for a single stock with pairwise distinct dates the derived values  *)
(* of the row of a date do not depend on the order of the rows in the      *)
(* file: they are those of the rows taken in ascending date order.         *)
C2_OrderIndependent ==
    (Enriched /\ Cardinality(StocksOf(df)) = 1 /\ DistinctDates(df)) =>
        LET sorted == FeatureEngineering(SortByDate(df))
        IN  \A i, p \in 1..Len(df) :
                df[i].Date = sorted[p].Date
                    => Derived(df[i]) = Derived(sorted[p])

(* C3: within every stock's row sequence SMA_50[i] is the mean of that     *)
(* stock's last min(i+1, 50) closes ending at i, and SMA_100 likewise.     *)
C3_PerStockSMA ==
    Enriched =>
        \A s \in StocksOf(df) :
            LET own == RowsOfStock(df, s)
            IN  \A j \in 1..Len(own) :
                    /\ own[j].SMA_50 = TrailingMean(own, j, SMA50_Window)
                    /\ own[j].SMA_100 = TrailingMean(own, j, SMA100_Window)

(* C4: Change_% is undefined on the first row of every stock and on a      *)
(* later row it is (close[i] - close[i-1]) / close[i-1] * 100 with         *)
(* close[i-1] the previous row of the same stock.                          *)
C4_PerStockChange ==
    Enriched =>
        \A s \in StocksOf(df) :
            LET own == RowsOfStock(df, s)
            IN  \A j \in 1..Len(own) :
                    IF j = 1 THEN own[j].Change_pct = NaN
                    ELSE own[j-1].Close # 0 =>
                            own[j].Change_pct =
                                Num((own[j].Close - own[j-1].Close) * 100,
                                    own[j-1].Close)

\* the sample standard deviation, from its definition, of the Change_% of
\* the rows T of rows: sqrt(sum (x - mean)^2 / (N - 1)), N >= 2
SampleStd(rows, T) ==
    LET N == Cardinality(T)
        RECURSIVE Dens(_)
        Dens(U) == IF U = {} THEN 1
                   ELSE LET t == CHOOSE t \in U : TRUE
                        IN  Lcm(rows[t].Change_pct.d, Dens(U \ {t}))
        L == Dens(T)
        y(t) == rows[t].Change_pct.n * (L \div rows[t].Change_pct.d)
        RECURSIVE Total(_)
        Total(U) == IF U = {} THEN 0
                    ELSE LET t == CHOOSE t \in U : TRUE
                         IN  y(t) + Total(U \ {t})
        S == Total(T)
        RECURSIVE Squares(_)
        Squares(U) == IF U = {} THEN 0
                      ELSE LET t == CHOOSE t \in U : TRUE
                           IN  (N * y(t) - S) * (N * y(t) - S)
                                   + Squares(U \ {t})
    IN  Sqrt(Squares(T), N * N * (N - 1) * L * L)

\* the rows of the window [max(0, i-19) .. i] whose Change_% is a number
DefinedInWindow(rows, i) ==
    {t \in (IF i > Vol_Window THEN i - Vol_Window + 1 ELSE 1)..i :
        rows[t].Change_pct.k = "num"}

C6_ZeroCloseUndefined ==
    Enriched =>
        \A i \in 2..Len(df) :
            (df[i-1].Stock = df[i].Stock /\ df[i-1].Close = 0
                /\ df[i].Close > 0)
                => df[i].Change_pct = NaN

\* the rows of the file whose Date parses
ValidRows == {i \in 1..Len(csv.rows) : csv.rows[i].Date[1] = "iso"}

(* C7: rows whose Date is missing or unparseable are absent from the       *)
(* enriched frame and take no part in a rolling window; every row with a   *)
(* parseable Date is in it exactly once, in file order, and no row is      *)
(* added: the moving averages and the change of a row are those of the     *)
(* parseable rows that precede it.                                         *)
C7_MalformedDatesExcluded ==
    Enriched =>
        /\ Len(df) = Cardinality(ValidRows)
        /\ \A j \in 1..Len(df) :
            /\ df[j].idx + 1 \in ValidRows
            /\ j > 1 => df[j-1].idx < df[j].idx
            /\ df[j].Date = csv.rows[df[j].idx + 1].Date[2]
            /\ df[j].Close = csv.rows[df[j].idx + 1].Close
            /\ df[j].Category = csv.rows[df[j].idx + 1].Category
            /\ df[j].SMA_50 = TrailingMean(df, j, SMA50_Window)
            /\ df[j].SMA_100 = TrailingMean(df, j, SMA100_Window)
            /\ j = 1 => df[j].Change_pct = NaN
            /\ (j > 1 /\ df[j-1].Close # 0) =>
                    df[j].Change_pct =
                        Num((df[j].Close - df[j-1].Close) * 100, df[j-1].Close)

\* a file with a malformed date between two parseable ones
C7_Witness ==
    /\ Enriched
    /\ Len(df) >= 2
    /\ \E i, j, k \in 1..Len(csv.rows) :
        /\ i < j /\ j < k
        /\ {i, k} \subseteq ValidRows
        /\ j \notin ValidRows

(* C8: for every non-empty set of required columns absent from the file    *)
(* the run ends in the 'Missing columns' error naming exactly that set,    *)
(* before any feature engineering, and in no other error.                  *)
C8_MissingColumnsReported ==
    (csv.found /\ required_cols \ csv.cols # {}) =>
        /\ pc \in {"load", "unnamed", "dates", "stock", "verify", "stopped"}
        /\ pc = "stopped" =>
                error = [kind |-> "Missing columns",
                         arg |-> required_cols \ csv.cols]

\* the rows the filters keep for the stocks S
KeptRows(S) ==
    {df[i] : i \in {t \in 1..Len(df) :
        /\ df[t].Category = category
        /\ df[t].Stock \in S
        /\ date_range[1] <= df[t].Date
        /\ df[t].Date <= date_range[2]}}

\* rows is a selection of the rows of df, in frame order
InFrameOrder(rows) ==
    \A j \in 2..Len(rows) : rows[j-1].idx < rows[j].idx

(* C9: whatever the category, stocks and date range, the rows charted and  *)
(* exported are exactly the rows of df the filters select, each with every *)
(* column value, the derived ones included, as the feature engineering     *)
(* computed it on the full frame.                                          *)
C9_FiltersOnlySelect ==
    /\ pc \in {"metrics", "export", "footer", "done"} =>
            \A s \in selected_stocks :
                /\ SetOf(shown[s]) = KeptRows({s})
                /\ InFrameOrder(shown[s])
    /\ pc \in {"footer", "done"} =>
            /\ SetOf(exported) = KeptRows(selected_stocks)
            /\ InFrameOrder(exported)
    /\ pc = "done" => df = FeatureEngineering(df)

\* an export that leaves out the rows its first row's average is taken over
C9_Witness ==
    /\ pc = "done"
    /\ exported # <<>>
    /\ Len(exported) < Len(df)
    /\ exported[1].idx > 0
    /\ exported[1].SMA_50 # Num(exported[1].Close, 1)

(* C10: a run on a file that has the required columns reaches the footer   *)
(* for every filter selection: it never ends in an unhandled exception.    *)
C10_RunCompletes ==
    (csv.found /\ required_cols \subseteq csv.cols) => pc # "crashed"

====
